---- MODULE Spec2Model ----
(***************************************************************************)
(* Patient Record System: the JSON-file-backed CRUD service of src/data.py *)
(* (canonical variant: generated ids, renumbering on delete) and of        *)
(* src/FastAPI_patient_management/main.py (legacy variant: client ids,     *)
(* plain delete).                                                          *)
(*                                                                         *)
(* Representation.                                                         *)
(*   - A patient id is the tuple of its characters, <<"P", 0, 0, 1>> for   *)
(*     "P001"; int(pid[1:]) and f"P{n:03d}" are computed on the digits.    *)
(*   - A dict (and the JSON object it is dumped to / loaded from) is the   *)
(*     sequence of its items [k |-> id, v |-> record] in insertion order,  *)
(*     which json.dump and json.load preserve.                             *)
(*   - height is in centimetres, weight in kilograms, bmi in hundredths:   *)
(*     bmi = round(weight / height^2, 2) is Round(weight * 10^6, height^2).*)
(*   - An optional value (a body or patch field that may be absent or      *)
(*     null) is <<>> for None and <<v>> for the value v.                   *)
(***************************************************************************)
EXTENDS Integers, Sequences, FiniteSets, TLC

VARIABLES file, resp, procs

vars == <<file, resp, procs>>

\* ------------------------------------------------------------------ bounds
MaxPatients == 3
MaxLoaded == 3

\* ------------------------------------------------------------- identifiers
RECURSIVE DecDigits(_)
\* str(n) for n >= 0, as the sequence of its decimal digits
DecDigits(n) == IF n < 10 THEN <<n>> ELSE Append(DecDigits(n \div 10), n % 10)

RECURSIVE ZeroPad(_, _)
\* the "0w" part of a format spec: pad on the left with zeros to width w
ZeroPad(ds, w) == IF Len(ds) >= w THEN ds ELSE ZeroPad(<<0>> \o ds, w)

\* f"P{n:03d}"
FormatId(n) == <<"P">> \o ZeroPad(DecDigits(n), 3)

RECURSIVE DecValue(_)
\* int(s) for a non-empty digit string s
DecValue(ds) ==
  IF Len(ds) = 0 THEN 0
  ELSE 10 * DecValue(SubSeq(ds, 1, Len(ds) - 1)) + ds[Len(ds)]

\* int(pid[1:])
IdNumber(pid) == DecValue(Tail(pid))

\* ------------------------------------------------------------------- dicts
Keys(data) == {data[i].k : i \in 1..Len(data)}

Has(data, pid) == \E i \in 1..Len(data) : data[i].k = pid

IndexOf(data, pid) == CHOOSE i \in 1..Len(data) : data[i].k = pid

\* data[pid]
Lookup(data, pid) == data[IndexOf(data, pid)].v

\* data[pid] = rec: a present key keeps its place, a new key goes last
Put(data, pid, rec) ==
  IF Has(data, pid)
  THEN [data EXCEPT ![IndexOf(data, pid)] = [k |-> pid, v |-> rec]]
  ELSE Append(data, [k |-> pid, v |-> rec])

\* del data[pid]
Del(data, pid) ==
  LET i == IndexOf(data, pid)
  IN SubSeq(data, 1, i - 1) \o SubSeq(data, i + 1, Len(data))

\* data.values()
Values(data) == [i \in 1..Len(data) |-> data[i].v]

Max(S) == CHOOSE x \in S : \A y \in S : y <= x

\* list.sort / sorted on a list whose keys are keys[1..n]: the positions of
\* the list in sorted order. The sort is stable, and with reverse=True equal
\* elements keep their original order as well.
RECURSIVE SortOrder(_, _)
SortOrder(keys, reverse) ==
  IF Len(keys) = 0 THEN <<>>
  ELSE LET n == Len(keys)
           front == SortOrder(SubSeq(keys, 1, n - 1), reverse)
           Before(i) == IF reverse THEN keys[i] >= keys[n] ELSE keys[i] <= keys[n]
           \* n goes after every position that does not have to follow it
           p == Cardinality({j \in 1..Len(front) : Before(front[j])})
       IN SubSeq(front, 1, p) \o <<n>> \o SubSeq(front, p + 1, Len(front))

\* sorted(s, key=..., reverse=...) given the keys of s
Sorted(s, keys, reverse) ==
  LET order == SortOrder(keys, reverse)
  IN [i \in 1..Len(s) |-> s[order[i]]]

\* ---------------------------------------------------------- patient schema
Genders == {"male", "female", "others"}

InputFields == {"name", "city", "age", "gender", "height", "weight"}

\* round(n / d, 0) for d > 0: nearest integer, an exact tie to the even one
Round(n, d) ==
  LET q == n \div d
      r == n % d
  IN IF 2 * r < d THEN q
     ELSE IF 2 * r > d THEN q + 1
     ELSE IF q % 2 = 0 THEN q ELSE q + 1

\* Patient.bmi: round(weight / height ** 2, 2), in hundredths
bmi(height, weight) == Round(weight * 1000000, height * height)

\* Patient.verdict
verdict(b) ==
  IF b < 1850 THEN "Underweight"
  ELSE IF b < 2500 THEN "Healthy weight"
  ELSE IF b < 3000 THEN "Overweight"
  ELSE "Obese"

\* The Field constraints of src/data.py's Patient on optional-wrapped input
\* values: every field required and not None, age, height and weight gt=0.
\* (id is required too; the handlers check it apart, see create_patient.)
PatientValid(info) ==
  /\ \A f \in InputFields : f \in DOMAIN info /\ info[f] # <<>>
  /\ info.age[1] > 0
  /\ info.gender[1] \in Genders
  /\ info.height[1] > 0
  /\ info.weight[1] > 0

\* The legacy Patient of main.py: weight carries no gt=0
LegacyPatientValid(info) ==
  /\ \A f \in InputFields : f \in DOMAIN info /\ info[f] # <<>>
  /\ info.age[1] > 0
  /\ info.gender[1] \in Genders
  /\ info.height[1] > 0

\* PatientUpdate: every field Optional (None passes), a value is checked
PatientUpdateValid(patch) ==
  /\ DOMAIN patch \subseteq InputFields
  /\ "age" \in DOMAIN patch /\ patch.age # <<>> => patch.age[1] > 0
  /\ "gender" \in DOMAIN patch /\ patch.gender # <<>> => patch.gender[1] \in Genders
  /\ "height" \in DOMAIN patch /\ patch.height # <<>> => patch.height[1] > 0
  /\ "weight" \in DOMAIN patch /\ patch.weight # <<>> => patch.weight[1] > 0

\* Patient(**info).model_dump(exclude={'id'}): the fields and the computed ones
model_dump(info) ==
  [name |-> info.name[1], city |-> info.city[1], age |-> info.age[1],
   gender |-> info.gender[1], height |-> info.height[1],
   weight |-> info.weight[1],
   bmi |-> bmi(info.height[1], info.weight[1]),
   verdict |-> verdict(bmi(info.height[1], info.weight[1]))]

\* Mutant: the loop over the patch assigns nothing, the stored fields stay
Merged_KeepsStored(existing, patch) ==
  [f \in DOMAIN existing \cap InputFields |-> <<existing[f]>>]

\* existing_patient_info after "for key, value in ...: existing[key] = value",
\* as the keyword arguments Patient(**...) reads (extra keys are ignored)
Merged(existing, patch) ==
  [f \in (DOMAIN existing \cup DOMAIN patch) \cap InputFields |->
     IF f \in DOMAIN patch THEN patch[f] ELSE <<existing[f]>>]

\* ------------------------------------------------------------ id lifecycle
\* Mutant: the delete of main.py, which leaves the remaining keys alone
renumber_patients_Skipped(data) == data

\* Mutant: renumbering in dict order, the sort by numeric suffix left out
renumber_patients_Unsorted(data) ==
  [index \in 1..Len(data) |-> [k |-> FormatId(index), v |-> data[index].v]]

\* renumber_patients
renumber_patients(data) ==
  IF Len(data) = 0 THEN <<>>
  ELSE LET patients_list ==
             Sorted(data, [i \in 1..Len(data) |-> IdNumber(data[i].k)], FALSE)
       IN [index \in 1..Len(patients_list) |->
             [k |-> FormatId(index), v |-> patients_list[index].v]]

\* Mutant: the next id taken from the number of entries, not from the maximum
get_next_patient_id_ByCount(data) == FormatId(Len(data) + 1)

\* get_next_patient_id
get_next_patient_id(data) ==
  IF Len(data) = 0 THEN FormatId(1)
  ELSE FormatId(Max({IdNumber(pid) : pid \in Keys(data)}) + 1)

\* ------------------------------------------------------------ record store
\* The backing document patient.json: missing, a well-formed JSON object
\* (doc), or text json.load rejects (an empty or partly written file).
NoFile == [state |-> "missing", doc |-> <<>>]

Document(data) == [state |-> "ok", doc |-> data]

CorruptFile == [state |-> "corrupt", doc |-> <<>>]

\* load_data: FileNotFoundError gives {}; JSONDecodeError is raised as a 500
\* (LoadFails), which every handler lets through
load_data(f) == f.doc

LoadFails(f) == f.state = "corrupt"

\* save_data on the file f. io is what the file system does:
\*   "ok"     open and json.dump succeed;
\*   "denied" open(DATA_FILE, 'w') itself raises, the file is untouched;
\*   "broken" open has truncated the file and a write raises before the
\*            closing brace: what is left is no JSON document.
save_data(f, data, io) ==
  IF io = "ok" THEN Document(data)
  ELSE IF io = "denied" THEN f
  ELSE CorruptFile

\* ---------------------------------------------------------------- handlers
\* What a request leaves for the client: the operation and its path id,
\* the request's own argument (arg), the status, and the body's payload
\* (out: the records returned; count: new_patient_count).
Response(op, status, pid, arg, out, count) ==
  [op |-> op, status |-> status, pid |-> pid, arg |-> arg, out |-> out,
   count |-> count]

\* A handler's work between load_data and save_data, on the loaded dict:
\* either it answers at once (save = FALSE) or it has a dict to save and the
\* answer to give once saved.
Answer(r) == [save |-> FALSE, data |-> <<>>, resp |-> r]

SaveThen(data, r) == [save |-> TRUE, data |-> data, resp |-> r]

\* Mutant: the record goes under the id the body carries, as in main.py
create_plan_UsesBodyId(data, body) ==
  SaveThen(Put(data, body.id[1], model_dump(body)),
           Response("create", 201, body.id[1], body.id, <<>>, 0))

\* create_patient (data.py), after load_data
create_plan(data, body) ==
  LET new_patient_id == get_next_patient_id(data)
  IN SaveThen(Put(data, new_patient_id, model_dump(body)),
              Response("create", 201, new_patient_id, body.id, <<>>, 0))

\* Mutant: the merged fields are saved with the bmi and verdict the stored
\* record had, not recomputed
update_plan_KeepsDerived(data, patient_id, patch) ==
  IF ~Has(data, patient_id)
  THEN Answer(Response("update", 404, patient_id, patch, <<>>, 0))
  ELSE LET existing_patient_info == Merged(Lookup(data, patient_id), patch)
           stale == [model_dump(existing_patient_info) EXCEPT
                       !.bmi = Lookup(data, patient_id).bmi,
                       !.verdict = Lookup(data, patient_id).verdict]
       IN IF ~PatientValid(existing_patient_info)
          THEN Answer(Response("update", 500, patient_id, patch, <<>>, 0))
          ELSE SaveThen(Put(data, patient_id, stale),
                        Response("update", 200, patient_id, patch, <<stale>>, 0))

\* update_patient (data.py), after load_data
update_plan(data, patient_id, patch) ==
  IF ~Has(data, patient_id)
  THEN Answer(Response("update", 404, patient_id, patch, <<>>, 0))
  ELSE LET existing_patient_info == Merged(Lookup(data, patient_id), patch)
       IN IF ~PatientValid(existing_patient_info)
          \* pydantic's ValidationError leaves the handler: a 500
          THEN Answer(Response("update", 500, patient_id, patch, <<>>, 0))
          ELSE SaveThen(Put(data, patient_id, model_dump(existing_patient_info)),
                        Response("update", 200, patient_id, patch,
                                 <<model_dump(existing_patient_info)>>, 0))

\* Mutant: an absent id is no error (data.pop(patient_id, None)); the rest of
\* the handler runs
delete_plan_IgnoresMissing(data, patient_id) ==
  LET kept == IF Has(data, patient_id) THEN Del(data, patient_id) ELSE data
      renumbered_data == renumber_patients(kept)
  IN SaveThen(renumbered_data,
              Response("delete", 200, patient_id, <<>>,
                       IF Has(data, patient_id)
                       THEN <<Lookup(data, patient_id)>> ELSE <<>>,
                       Len(renumbered_data)))

\* delete_patient (data.py), after load_data
delete_plan(data, patient_id) ==
  IF ~Has(data, patient_id)
  THEN Answer(Response("delete", 404, patient_id, <<>>, <<>>, 0))
  ELSE LET deleted_patient == Lookup(data, patient_id)
           renumbered_data == renumber_patients(Del(data, patient_id))
       IN SaveThen(renumbered_data,
                   Response("delete", 200, patient_id, <<>>,
                            <<deleted_patient>>, Len(renumbered_data)))

\* create_patient (main.py), after load_data: the client's id, refused if taken
legacy_create_plan(data, body) ==
  IF Has(data, body.id[1])
  THEN Answer(Response("legacy_create", 400, <<>>, body.id, <<>>, 0))
  ELSE SaveThen(Put(data, body.id[1], model_dump(body)),
                Response("legacy_create", 201, <<>>, body.id, <<>>, 0))

\* update_patient (main.py), after load_data: the legacy Patient validates,
\* and the answer carries a message only
legacy_update_plan(data, patient_id, patch) ==
  IF ~Has(data, patient_id)
  THEN Answer(Response("legacy_update", 404, patient_id, patch, <<>>, 0))
  ELSE LET existing_patient_info == Merged(Lookup(data, patient_id), patch)
       IN IF ~LegacyPatientValid(existing_patient_info)
          THEN Answer(Response("legacy_update", 500, patient_id, patch, <<>>, 0))
          ELSE SaveThen(Put(data, patient_id, model_dump(existing_patient_info)),
                        Response("legacy_update", 200, patient_id, patch, <<>>, 0))

\* delete_patient (main.py), after load_data: no renumbering
legacy_delete_plan(data, patient_id) ==
  IF ~Has(data, patient_id)
  THEN Answer(Response("legacy_delete", 404, patient_id, <<>>, <<>>, 0))
  ELSE SaveThen(Del(data, patient_id),
                Response("legacy_delete", 200, patient_id, <<>>, <<>>, 0))

\* One request served alone: load_data, the handler's plan todo (made from
\* the loaded dict), save_data. A failed load or save ends it with a 500.
Serve(op, pid, arg, todo, io) ==
  /\ IF LoadFails(file)
     THEN /\ resp' = Response(op, 500, pid, arg, <<>>, 0)
          /\ file' = file
     ELSE IF ~todo.save
          THEN /\ resp' = todo.resp
               /\ file' = file
          ELSE /\ file' = save_data(file, todo.data, io)
               /\ resp' = IF io = "ok" THEN todo.resp
                          ELSE Response(op, 500, pid, arg, <<>>, 0)
  /\ UNCHANGED procs

\* A request the framework refuses before the handler runs
Refuse(op, status, pid, arg) ==
  /\ resp' = Response(op, status, pid, arg, <<>>, 0)
  /\ UNCHANGED <<file, procs>>

\* POST /create (data.py)
create_patient(body, io) ==
  IF body.id = <<>> \/ ~PatientValid(body)
  THEN Refuse("create", 422, <<>>, body.id)
  ELSE Serve("create", <<>>, body.id, create_plan(load_data(file), body), io)

\* PUT /edit/{patient_id} (data.py)
update_patient(patient_id, patch, io) ==
  IF ~PatientUpdateValid(patch)
  THEN Refuse("update", 422, patient_id, patch)
  ELSE Serve("update", patient_id, patch,
             update_plan(load_data(file), patient_id, patch), io)

\* DELETE /delete/{patient_id} (data.py)
delete_patient(patient_id, io) ==
  Serve("delete", patient_id, <<>>, delete_plan(load_data(file), patient_id), io)

\* GET /patients/{patient_id}
view_plan(data, patient_id) ==
  IF Has(data, patient_id)
  THEN Answer(Response("get", 200, patient_id, <<>>,
                       <<Lookup(data, patient_id)>>, 0))
  ELSE Answer(Response("get", 404, patient_id, <<>>, <<>>, 0))

view_patient(patient_id) ==
  Serve("get", patient_id, <<>>, view_plan(load_data(file), patient_id), "ok")

\* GET /patients
get_all_patients ==
  Serve("list", <<>>, <<>>,
        Answer(Response("list", 200, <<>>, <<>>, load_data(file), 0)), "ok")

\* x.get(sort_by, 0)
SortKey(x, sort_by) == IF sort_by \in DOMAIN x THEN x[sort_by] ELSE 0

\* Mutant: descending order as the ascending result turned around
\* (sorted(...)[::-1]), which turns equal keys around too
sort_plan_ReversedAsc(data, sort_by, order) ==
  LET asc == Sorted(Values(data),
                    [i \in 1..Len(data) |-> SortKey(data[i].v, sort_by)], FALSE)
      sorted_data ==
        IF order = "desc" THEN [i \in 1..Len(asc) |-> asc[Len(asc) + 1 - i]]
        ELSE asc
  IN Answer(Response("sort", 200, <<>>, <<sort_by, order>>, sorted_data, 0))

\* sort_patients, after load_data
sort_plan(data, sort_by, order) ==
  LET order_value == (order = "desc")
      sorted_data ==
        Sorted(Values(data),
               [i \in 1..Len(data) |-> SortKey(data[i].v, sort_by)], order_value)
  IN Answer(Response("sort", 200, <<>>, <<sort_by, order>>, sorted_data, 0))

\* GET /sort
sort_patients(sort_by, order) ==
  IF sort_by \notin {"height", "weight", "bmi"} \/ order \notin {"asc", "desc"}
  THEN Refuse("sort", 400, <<>>, <<sort_by, order>>)
  ELSE Serve("sort", <<>>, <<sort_by, order>>,
             sort_plan(load_data(file), sort_by, order), "ok")

\* POST /create (main.py)
legacy_create_patient(body, io) ==
  IF body.id = <<>> \/ ~LegacyPatientValid(body)
  THEN Refuse("legacy_create", 422, <<>>, body.id)
  ELSE Serve("legacy_create", <<>>, body.id,
             legacy_create_plan(load_data(file), body), io)

\* PUT /edit/{patient_id} (main.py)
legacy_update_patient(patient_id, patch, io) ==
  IF ~PatientUpdateValid(patch)
  THEN Refuse("legacy_update", 422, patient_id, patch)
  ELSE Serve("legacy_update", patient_id, patch,
             legacy_update_plan(load_data(file), patient_id, patch), io)

\* DELETE /delete/{patient_id} (main.py)
legacy_delete_patient(patient_id, io) ==
  Serve("legacy_delete", patient_id, <<>>,
        legacy_delete_plan(load_data(file), patient_id), io)

\* ------------------------------------------------------------------ inputs
\* A POST /create body; id is <<>> when the body carries none
Body(id, name, age, gender, height, weight) ==
  [id |-> id, name |-> <<name>>, city |-> <<"Pokhara">>, age |-> <<age>>,
   gender |-> <<gender>>, height |-> <<height>>, weight |-> <<weight>>]

Asha(height, weight) == Body(<<FormatId(1)>>, "Asha", 30, "female", height, weight)

Bikram(height, weight) == Body(<<FormatId(9)>>, "Bikram", 41, "male", height, weight)

Dev(height, weight) == Body(<<FormatId(2)>>, "Dev", 25, "male", height, weight)

\* Two acceptable bodies (both carry an id the service is free to ignore) and
\* one body per way of being refused
Bodies ==
  {Asha(150, 50), Bikram(200, 100),
   Asha(150, 0), Asha(150, -5), Asha(0, 50),
   Body(<<FormatId(1)>>, "Asha", 0, "female", 150, 50),
   Body(<<FormatId(1)>>, "Asha", 30, "unknown", 150, 50),
   Body(<<>>, "Asha", 30, "female", 150, 50)}

\* PUT /edit bodies: the fields set (exclude_unset), null being <<>>
Patches ==
  {[weight |-> <<100>>], [name |-> <<"Bikram">>], [x \in {} |-> <<>>],
   [weight |-> <<0>>], [weight |-> <<-5>>], [height |-> <<0>>],
   [age |-> <<0>>], [name |-> <<>>]}

PathIds == {FormatId(n) : n \in 1..(MaxPatients + 1)}

SortFields == {"height", "weight", "bmi", "age"}

SortOrders == {"asc", "desc", "up"}

Size == Len(load_data(file))

\* ---------------------------------------------------------- specifications
NoResponse == Response("none", 0, <<>>, <<>>, <<>>, 0)

Procs == {1, 2}

Idle == [pc |-> "idle", data |-> <<>>, todo |-> Answer(NoResponse),
         resp |-> NoResponse]

\* The service of data.py over a backing document that does not exist yet,
\* requests served one at a time, the file system never failing
Init ==
  /\ file = NoFile
  /\ resp = NoResponse
  /\ procs = [p \in Procs |-> Idle]

Next ==
  \/ \E body \in Bodies : Size < MaxPatients /\ create_patient(body, "ok")
  \/ \E pid \in PathIds, patch \in Patches : update_patient(pid, patch, "ok")
  \/ \E pid \in PathIds : delete_patient(pid, "ok")

Spec == Init /\ [][Next]_vars

\* The same service over a backing document it did not write alone: left by
\* the legacy variant or edited by hand. Keys are P-numbers in any order, with
\* gaps, and with two spellings of one number; one record predates the
\* computed fields (no bmi, no verdict).
Stored(body) == model_dump(body)

LegacyRecord ==
  [name |-> "Chandra", city |-> "Pokhara", age |-> 52, gender |-> "others",
   height |-> 180, weight |-> 81]

LoadedIds ==
  {FormatId(1), FormatId(2), FormatId(3), <<"P", 0, 2>>, <<"P", 9, 9, 9>>}

LoadedRecords ==
  {Stored(Asha(150, 50)), Stored(Bikram(200, 100)), Stored(Dev(150, 50)),
   LegacyRecord}

LoadedDocs ==
  UNION {{d \in [1..n -> [k : LoadedIds, v : LoadedRecords]] :
            \A i, j \in 1..n : i # j => d[i].k # d[j].k} : n \in 0..MaxLoaded}

\* The keys and one id no document holds
LoadedPathIds == LoadedIds \cup {FormatId(4)}

LegacyPatches == {[weight |-> <<100>>], [weight |-> <<0>>], [name |-> <<>>]}

InitLoaded ==
  /\ file \in {NoFile} \cup {Document(d) : d \in LoadedDocs}
  /\ resp = NoResponse
  /\ procs = [p \in Procs |-> Idle]

\* No request served yet
Fresh == resp = NoResponse

\* One request on each such document: every handler on every document
NextLoaded ==
  \/ \E body \in Bodies : Fresh /\ create_patient(body, "ok")
  \/ \E pid \in LoadedPathIds, patch \in Patches :
       Fresh /\ update_patient(pid, patch, "ok")
  \/ \E pid \in LoadedPathIds, patch \in LegacyPatches :
       Fresh /\ legacy_update_patient(pid, patch, "ok")
  \/ \E pid \in LoadedPathIds : Fresh /\ delete_patient(pid, "ok")
  \/ \E pid \in LoadedPathIds : Fresh /\ view_patient(pid)
  \/ \E sort_by \in SortFields, order \in SortOrders :
       Fresh /\ sort_patients(sort_by, order)
  \/ Fresh /\ get_all_patients

SpecLoaded == InitLoaded /\ [][NextLoaded]_vars

\* The service of data.py on heights and weights that reach every verdict,
\* the thresholds 18.5, 25 and 30 and a bmi that needs rounding
MaxDerived == 2

DerivedHeights == {150, 200}

DerivedWeights == {50, 74, 100, 120}

DerivedBodies ==
  {Asha(h, w) : h \in DerivedHeights, w \in DerivedWeights} \cup {Asha(150, 0)}

DerivedPatches ==
  {[weight |-> <<w>>] : w \in DerivedWeights \cup {0}}
    \cup {[height |-> <<h>>] : h \in DerivedHeights}
    \cup {[height |-> <<200>>, weight |-> <<120>>]}

DerivedPathIds == {FormatId(n) : n \in 1..MaxDerived}

NextDerived ==
  \/ \E body \in DerivedBodies : Size < MaxDerived /\ create_patient(body, "ok")
  \/ \E pid \in DerivedPathIds, patch \in DerivedPatches :
       update_patient(pid, patch, "ok")
  \/ \E pid \in DerivedPathIds : delete_patient(pid, "ok")

SpecDerived == Init /\ [][NextDerived]_vars

\* The legacy service of main.py over a backing document that does not exist
\* yet, requests served one at a time
LegacyBodies ==
  {Body(<<FormatId(n)>>, "Asha", 30, "female", 150, w) :
     n \in {1, 2, 7}, w \in {50, 0, -5}}
    \cup {Body(<<FormatId(1)>>, "Asha", 30, "female", 0, 50),
          Body(<<>>, "Asha", 30, "female", 150, 50)}

LegacyPathIds == {FormatId(n) : n \in {1, 2, 7}}

NextLegacy ==
  \/ \E body \in LegacyBodies :
       Size < MaxPatients /\ legacy_create_patient(body, "ok")
  \/ \E pid \in LegacyPathIds, patch \in Patches :
       legacy_update_patient(pid, patch, "ok")
  \/ \E pid \in LegacyPathIds : legacy_delete_patient(pid, "ok")
  \/ \E pid \in LegacyPathIds : view_patient(pid)

SpecLegacy == Init /\ [][NextLegacy]_vars

\* The service of data.py when the file system may fail a save
IoOutcomes == {"ok", "denied", "broken"}

NextFaulty ==
  \/ \E body \in Bodies, io \in IoOutcomes :
       Size < MaxPatients /\ create_patient(body, io)
  \/ \E pid \in PathIds, patch \in Patches, io \in IoOutcomes :
       update_patient(pid, patch, io)
  \/ \E pid \in PathIds, io \in IoOutcomes : delete_patient(pid, io)
  \/ \E pid \in PathIds : view_patient(pid)

SpecFaulty == Init /\ [][NextFaulty]_vars

\* Overlapping requests. Each of two workers serves one request of data.py;
\* a request is two steps, its load_data (with the handler's work on the
\* loaded dict, which touches nothing shared) and its save_data, and nothing
\* orders the steps of one worker against those of the other.
MaxConc == 2

ConcRecords == {Stored(Asha(150, 50)), Stored(Bikram(200, 100))}

\* The documents the service alone leaves: keys P001..P{n} in order
ConcDocs ==
  UNION {{[i \in 1..n |-> [k |-> FormatId(i), v |-> r[i]]] :
            r \in [1..n -> ConcRecords]} : n \in 0..MaxConc}

ConcPathIds == {FormatId(n) : n \in 1..MaxConc}

InitConc ==
  /\ file \in {NoFile} \cup {Document(d) : d \in ConcDocs}
  /\ resp = NoResponse
  /\ procs = [p \in Procs |-> Idle]

\* Worker p runs a handler up to its save_data: it has loaded the dict data
\* and made the plan todo
Begin(p, data, todo) ==
  /\ procs[p].pc = "idle"
  /\ ~LoadFails(file)
  /\ procs' = [procs EXCEPT ![p] =
                 IF todo.save
                 THEN [pc |-> "saving", data |-> data, todo |-> todo,
                       resp |-> NoResponse]
                 ELSE [pc |-> "done", data |-> data, todo |-> todo,
                       resp |-> todo.resp]]
  /\ UNCHANGED <<file, resp>>

\* Worker p's save_data, and its answer
Finish(p) ==
  /\ procs[p].pc = "saving"
  /\ file' = save_data(file, procs[p].todo.data, "ok")
  /\ procs' = [procs EXCEPT ![p].pc = "done", ![p].resp = procs[p].todo.resp]
  /\ UNCHANGED resp

NextConc ==
  \/ \E p \in Procs, body \in {Asha(150, 50), Bikram(200, 100)} :
       Begin(p, load_data(file), create_plan(load_data(file), body))
  \/ \E p \in Procs, pid \in ConcPathIds :
       Begin(p, load_data(file),
             update_plan(load_data(file), pid, [weight |-> <<100>>]))
  \/ \E p \in Procs, pid \in ConcPathIds :
       Begin(p, load_data(file), delete_plan(load_data(file), pid))
  \/ \E p \in Procs : Finish(p)

SpecConc == InitConc /\ [][NextConc]_vars

\* ================================================================== claims
\* Vocabulary of the claims, stated without the operators of the model's
\* handlers: ranks instead of a sort, the literal shape of an id instead of
\* FormatId.

\* pid is "P" followed by the decimal digits of n, zero-padded to exactly
\* three digits when n < 1000 and unpadded beyond
IsIdOf(pid, n) ==
  /\ Len(pid) >= 4
  /\ pid[1] = "P"
  /\ \A i \in 2..Len(pid) : pid[i] \in 0..9
  /\ IdNumber(pid) = n
  /\ Len(pid) > 4 => pid[2] # 0

\* The place of item i among the items at positions idx of a list with keys
\* key[i], in ascending key order, equal keys in list order
RankAsc(key, idx, i) ==
  1 + Cardinality({j \in idx : key[j] < key[i] \/ (key[j] = key[i] /\ j < i)})

\* The same in descending key order, equal keys still in list order
RankDesc(key, idx, i) ==
  1 + Cardinality({j \in idx : key[j] > key[i] \/ (key[j] = key[i] /\ j < i)})

Reverse(s) == [i \in 1..Len(s) |-> s[Len(s) + 1 - i]]

\* b (hundredths) is weight / height^2 (kg, cm) rounded to two decimals
IsBmiOf(b, height, weight) ==
  LET err == 2 * (b * height * height - 1000000 * weight)
  IN -(height * height) <= err /\ err <= height * height

\* The threshold table, 18.5, 25 and 30 falling in the upper class
IsVerdictOf(v, b) ==
  /\ b < 1850 => v = "Underweight"
  /\ 1850 <= b /\ b < 2500 => v = "Healthy weight"
  /\ 2500 <= b /\ b < 3000 => v = "Overweight"
  /\ 3000 <= b => v = "Obese"

Old == load_data(file)

New == load_data(file')

\* C1: from an empty backing document, after any sequence of successful
\* Create, Update and Delete requests of data.py served one at a time, the
\* persisted keys are exactly P001..P{n}, n the number of entries, each once.
C1_DenseIds ==
  /\ \A i, j \in 1..Size : i # j => Old[i].k # Old[j].k
  /\ \A n \in 1..Size : \E i \in 1..Size : IsIdOf(Old[i].k, n)
  /\ \A i \in 1..Size : \E n \in 1..Size : IsIdOf(Old[i].k, n)

\* A delete of the first of three patients has been served
C1_Witness ==
  /\ resp.op = "delete" /\ resp.status = 200
  /\ resp.pid = <<"P", 0, 0, 1>>
  /\ Size = 2

\* C2: a successful Create of data.py returns and stores under P001 on an
\* empty collection, otherwise under P + (largest numeric suffix + 1) padded
\* to at least three digits, whatever id the body carries; that id was not
\* present, every earlier entry keeps its key, fields and place, the
\* collection grows by exactly the new entry, and no gap below the maximum is
\* reused.
C2_CreateAssignsNextId ==
  [][resp'.op = "create" /\ resp'.status = 201 =>
       /\ IF Len(Old) = 0
          THEN resp'.pid = <<"P", 0, 0, 1>>
          ELSE \E i \in 1..Len(Old) :
                 /\ \A j \in 1..Len(Old) : IdNumber(Old[j].k) <= IdNumber(Old[i].k)
                 /\ IsIdOf(resp'.pid, IdNumber(Old[i].k) + 1)
       /\ \A i \in 1..Len(Old) : Old[i].k # resp'.pid
       /\ Len(New) = Len(Old) + 1
       /\ \A i \in 1..Len(Old) : New[i] = Old[i]
       /\ New[Len(New)].k = resp'.pid
       /\ {"name", "bmi", "verdict"} \subseteq DOMAIN New[Len(New)].v
     ]_vars

\* A create whose body carried the id P001, already a key, has been served on
\* a collection with a gap below its maximum P999, and answered P1000
C2_Witness ==
  /\ resp.op = "create" /\ resp.status = 201
  /\ resp.arg = <<(<<"P", 0, 0, 1>>)>>
  /\ resp.pid = <<"P", 1, 0, 0, 0>>
  /\ Size = 3
  /\ Old[1].k = <<"P", 9, 9, 9>> /\ Old[2].k = <<"P", 0, 0, 1>>

\* The positions of Old other than the one of the key pid
Others(pid) == {i \in 1..Len(Old) : Old[i].k # pid}

OldNumbers == [i \in 1..Len(Old) |-> IdNumber(Old[i].k)]

\* Old's keys are P001..P{n} in this order
OldIsDense == \A i \in 1..Len(Old) : IsIdOf(Old[i].k, i)

\* C3: a successful Delete(id) of data.py removes exactly the entry at id and
\* persists the remaining entries, taken in ascending order of their former
\* numeric suffix (equal suffixes in the collection's order), under the keys
\* P001, P002, ... with their fields unchanged; from a dense P001..Pn this
\* leaves Pj for j < k and moves P(j+1) to Pj for j >= k. The answer carries
\* the deleted record as it was and new_patient_count = n - 1.
C3_DeleteRenumbers ==
  [][resp'.op = "delete" /\ resp'.status = 200 =>
       /\ \E i \in 1..Len(Old) : Old[i].k = resp'.pid /\ resp'.out = <<Old[i].v>>
       /\ Len(New) = Len(Old) - 1
       /\ resp'.count = Len(Old) - 1
       /\ \A r \in 1..Len(New) : IsIdOf(New[r].k, r)
       /\ \A i \in Others(resp'.pid) :
            New[RankAsc(OldNumbers, Others(resp'.pid), i)].v = Old[i].v
       /\ OldIsDense =>
            \A j \in 1..Len(New) :
              New[j].v = IF j < IdNumber(resp'.pid) THEN Old[j].v ELSE Old[j + 1].v
     ]_vars

\* P002 (Bikram) has been deleted from a collection of three; Asha and
\* Chandra remain, and two entries are reported
C3_Witness ==
  /\ resp.op = "delete" /\ resp.status = 200
  /\ resp.pid = <<"P", 0, 0, 2>>
  /\ resp.count = 2
  /\ resp.out[1].name = "Bikram"
  /\ Old[1].v.name = "Asha" /\ Old[2].v.name = "Chandra"

\* Every value the patch sets passes PatientUpdate: age, height and weight
\* above 0, gender one of the three
PatchPasses(patch) ==
  /\ \A f \in DOMAIN patch \cap {"age", "height", "weight"} :
       patch[f] # <<>> => patch[f][1] > 0
  /\ \A f \in DOMAIN patch \cap {"gender"} :
       patch[f] # <<>> => patch[f][1] \in {"male", "female", "others"}

Absent(pid) == \A i \in 1..Len(Old) : Old[i].k # pid

\* C4 as stated: on an id that is no key, Get, Update and Delete each end 404
\* and leave the backing document as it was. (Fails on the code: a patch that
\* PatientUpdate refuses is answered 422 before the id is looked up.)
C4_Original ==
  [][resp'.op \in {"get", "update", "delete"} /\ Absent(resp'.pid) =>
       resp'.status = 404 /\ file' = file]_vars

\* C4, amended: on an id that is no key, Get, Delete, and Update with a patch
\* that passes the PatientUpdate field validation each end 404, and the
\* backing document is left as it was (nothing saved, renumbered or changed);
\* an Update patch that fails that validation is answered 422 first, the
\* document untouched as well.
C4_NotFoundLeavesDocument ==
  [][resp'.op \in {"get", "update", "delete"} /\ Absent(resp'.pid) =>
       /\ file' = file
       /\ resp'.status =
            IF resp'.op = "update" /\ ~PatchPasses(resp'.arg) THEN 422 ELSE 404
     ]_vars

\* A delete of an absent id answered 404 on three entries that a renumbering
\* would have re-keyed
C4_Witness ==
  /\ resp.op = "delete" /\ resp.status = 404
  /\ resp.pid = <<"P", 0, 0, 4>>
  /\ Size = 3
  /\ Old[1].k = <<"P", 9, 9, 9>>

\* C6: a successful Update(id, patch), in either variant, changes only the
\* entry at id: a field the patch sets takes the patch's value, every other
\* field of name, city, age, gender, height, weight keeps its stored value,
\* bmi and verdict are those of the resulting height and weight, and the keys,
\* their order and every other entry are as before.
C6_UpdateFrame ==
  [][resp'.op \in {"update", "legacy_update"} /\ resp'.status = 200 =>
       /\ \E i \in 1..Len(Old) : Old[i].k = resp'.pid
       /\ Len(New) = Len(Old)
       /\ \A i \in 1..Len(Old) :
            /\ New[i].k = Old[i].k
            /\ Old[i].k # resp'.pid => New[i] = Old[i]
            /\ Old[i].k = resp'.pid =>
                 /\ \A f \in InputFields :
                      New[i].v[f] = IF f \in DOMAIN resp'.arg
                                    THEN resp'.arg[f][1] ELSE Old[i].v[f]
                 /\ IsBmiOf(New[i].v.bmi, New[i].v.height, New[i].v.weight)
                 /\ IsVerdictOf(New[i].v.verdict, New[i].v.bmi)
                 /\ resp'.op = "update" => resp'.out = <<New[i].v>>
     ]_vars

\* A patch setting only weight has been applied to the second of three
\* entries: Asha, 1.50 m, now 100 kg, bmi 44.44, Obese
C6_Witness ==
  /\ resp.op = "update" /\ resp.status = 200
  /\ DOMAIN resp.arg = {"weight"} /\ resp.arg.weight = <<100>>
  /\ Size = 3
  /\ Old[2].k = resp.pid
  /\ Old[2].v = [name |-> "Asha", city |-> "Pokhara", age |-> 30,
                 gender |-> "female", height |-> 150, weight |-> 100,
                 bmi |-> 4444, verdict |-> "Obese"]

\* The sort key of each entry of Old: the field, 0 when the record lacks it
OldKeys(field) ==
  [i \in 1..Len(Old) |-> IF field \in DOMAIN Old[i].v THEN Old[i].v[field] ELSE 0]

\* The ascending sequence of C8: non-decreasing keys, equal keys in the
\* collection's order
AscSequence(field) ==
  [r \in 1..Len(Old) |->
     Old[CHOOSE i \in 1..Len(Old) :
           RankAsc(OldKeys(field), 1..Len(Old), i) = r].v]

\* C8 as stated: ... with order = desc the sequence is the exact reverse of
\* the asc sequence, also when two entries have equal keys. (Fails on the
\* code: sorted(reverse=True) keeps equal keys in the collection's order.)
C8_Original ==
  [][resp'.op = "sort" /\ resp'.status = 200 =>
       /\ file' = file
       /\ resp'.arg[2] = "asc" => resp'.out = AscSequence(resp'.arg[1])
       /\ resp'.arg[2] = "desc" => resp'.out = Reverse(AscSequence(resp'.arg[1]))
     ]_vars

\* C8, amended: Sort by height, weight or bmi returns each entry of the
\* collection exactly once and leaves the backing document unchanged; with asc
\* the keys (a missing field counting 0) are non-decreasing, with desc
\* non-increasing, and in both orders entries with equal keys appear in the
\* collection's original order; so desc is the exact reverse of asc whenever
\* no two entries have equal keys.
C8_SortStable ==
  [][resp'.op = "sort" /\ resp'.status = 200 =>
       LET field == resp'.arg[1]
           n == Len(Old)
           key == OldKeys(field)
           outkey == [r \in 1..Len(resp'.out) |->
                        IF field \in DOMAIN resp'.out[r] THEN resp'.out[r][field]
                        ELSE 0]
       IN /\ file' = file
          /\ field \in {"height", "weight", "bmi"}
          /\ Len(resp'.out) = n
          /\ resp'.arg[2] = "asc" =>
               /\ \A i \in 1..n : resp'.out[RankAsc(key, 1..n, i)] = Old[i].v
               /\ \A a, b \in 1..n : a < b => outkey[a] <= outkey[b]
          /\ resp'.arg[2] = "desc" =>
               /\ \A i \in 1..n : resp'.out[RankDesc(key, 1..n, i)] = Old[i].v
               /\ \A a, b \in 1..n : a < b => outkey[a] >= outkey[b]
               /\ (\A i, j \in 1..n : i # j => key[i] # key[j]) =>
                    resp'.out = Reverse(AscSequence(field))
     ]_vars

\* A descending sort by height of Asha (1.50), Dev (1.50), Bikram (2.00) has
\* answered Bikram, Asha, Dev
C8_Witness ==
  /\ resp.op = "sort" /\ resp.status = 200
  /\ resp.arg = <<"height", "desc">>
  /\ Size = 3
  /\ Old[1].v.name = "Asha" /\ Old[2].v.name = "Dev"
  /\ Len(resp.out) = 3
  /\ resp.out[1].name = "Bikram" /\ resp.out[2].name = "Asha"
  /\ resp.out[3].name = "Dev"

\* C5: in every state reached from an empty backing document by Create,
\* Update and Delete requests of data.py, every persisted patient's bmi is
\* round(weight / height^2, 2) of its own stored height and weight, and its
\* verdict is the threshold-table label of that bmi (18.5, 25 and 30 in the
\* upper class).
C5_DerivedConsistent ==
  \A i \in 1..Size :
    /\ {"height", "weight", "bmi", "verdict"} \subseteq DOMAIN Old[i].v
    /\ IsBmiOf(Old[i].v.bmi, Old[i].v.height, Old[i].v.weight)
    /\ IsVerdictOf(Old[i].v.verdict, Old[i].v.bmi)

\* A patch setting only height (2.00 m) has been applied to a 100 kg patient
\* stored with another height: bmi 25.00 exactly, Overweight
C5_Witness ==
  /\ resp.op = "update" /\ resp.status = 200
  /\ DOMAIN resp.arg = {"height"} /\ resp.arg.height = <<200>>
  /\ Size = 2
  /\ Old[2].k = resp.pid
  /\ Old[2].v.weight = 100 /\ Old[2].v.bmi = 2500
  /\ Old[2].v.verdict = "Overweight"
  /\ Old[1].v.bmi = 1850 /\ Old[1].v.verdict = "Healthy weight"

\* C7: in either variant Create and Update refuse a weight <= 0 (as a height
\* or an age <= 0), so no persisted patient has one. (Fails on main.py, whose
\* Patient.weight carries no gt=0.)
C7_PositiveMeasures ==
  \A i \in 1..Size :
    Old[i].v.weight > 0 /\ Old[i].v.height > 0 /\ Old[i].v.age > 0

\* C9: a Create, Update or Delete whose save fails ends 500 with the backing
\* document exactly as before, never one a later load cannot read. (Fails on
\* the code: open(DATA_FILE, 'w') has truncated the file when a write raises.)
C9_FailedSaveKeepsDocument ==
  [][resp'.op \in {"create", "update", "delete"} /\ resp'.status = 500 =>
       file' = file /\ ~LoadFails(file')]_vars

Done(p) == procs[p].pc = "done" /\ procs[p].todo.save

SnapshotRecords(p) == {procs[p].data[i].v : i \in 1..Len(procs[p].data)}

\* C10: two requests that both worked on the same loaded collection and both
\* were acknowledged leave the document one of them saved, the other's write
\* lost: two Creates return the same patient_id and the document holds one
\* new record only; a Create or Update with a Delete leaves either the
\* deleted entry's removal undone or no trace of the created or updated
\* record.
C10_LostUpdate ==
  \A p, q \in Procs :
    p # q /\ Done(p) /\ Done(q) /\ procs[p].data = procs[q].data =>
      /\ procs[p].resp.status \in {200, 201}
      /\ Old \in {procs[p].todo.data, procs[q].todo.data}
      /\ procs[p].resp.op = "create" /\ procs[q].resp.op = "create" =>
           /\ procs[p].resp.pid = procs[q].resp.pid
           /\ IsIdOf(procs[p].resp.pid, Len(procs[p].data) + 1)
           /\ Size = Len(procs[p].data) + 1
      /\ procs[p].resp.op \in {"create", "update"} /\ procs[q].resp.op = "delete" =>
           \/ /\ Size >= Len(procs[p].data)
              /\ \E i \in 1..Size : Old[i].k = procs[q].resp.pid
           \/ /\ Size = Len(procs[p].data) - 1
              /\ \A i \in 1..Size : Old[i].v \in SnapshotRecords(p)

\* Two Creates of different patients, both loaded from the same one-entry
\* collection, have both been answered P002; the document holds two entries
C10_Witness ==
  /\ Done(1) /\ Done(2)
  /\ procs[1].resp.op = "create" /\ procs[2].resp.op = "create"
  /\ procs[1].resp.status = 201 /\ procs[2].resp.status = 201
  /\ procs[1].data = procs[2].data /\ Len(procs[1].data) = 1
  /\ procs[1].todo.data # procs[2].todo.data
  /\ procs[1].resp.pid = <<"P", 0, 0, 2>> /\ procs[2].resp.pid = <<"P", 0, 0, 2>>
  /\ Size = 2
====
